---- MODULE Spec2Model ----
(***************************************************************************)
(* A model of split_chapter.py: ChapterSplitter.process and the methods it *)
(* calls (clean_text, detect_subtopics, is_valid_heading, SubTopic).       *)
(* A text is a sequence of one-character strings; the regular expressions  *)
(* of the source are written out as scans over such sequences.             *)
(***************************************************************************)
EXTENDS Integers, Sequences, FiniteSets, TLC

VARIABLES
    pc,                 \* position of the running method
    raw_text,           \* process: raw_text (the input file's content)
    saved_text,         \* content of <chapter>_extracted.txt, None when not written
    cleaned_text,       \* process: cleaned_text; detect_subtopics: text
    lines,              \* detect_subtopics: lines
    potential_headings, \* detect_subtopics: potential_headings
    idx,                \* detect_subtopics: idx of the second pass
    subtopics,          \* detect_subtopics: subtopics
    skipped,            \* candidates reported by the "Skipped" print, by idx
    generated_files,    \* process: one entry (the section's number) per create_pdf call
    error,              \* the exception raised, "" when none
    heading,            \* is_valid_heading: heading
    content,            \* is_valid_heading: content
    valid               \* is_valid_heading: the value returned (FALSE before the return)

vars == <<pc, raw_text, saved_text, cleaned_text, lines, potential_headings, idx,
          subtopics, skipped, generated_files, error, heading, content, valid>>

\* Python's None, for a variable that otherwise holds a text
None == <<"None">>

(***************************************************************************)
(* Characters and the str methods the source uses.                         *)
(***************************************************************************)
Chars(s) == [i \in 1..Len(s) |-> SubSeq(s, i, i)]

Range(s) == {s[i] : i \in DOMAIN s}

Upper == Range(Chars("ABCDEFGHIJKLMNOPQRSTUVWXYZ"))

Lower == Range(Chars("abcdefghijklmnopqrstuvwxyz"))

Digit == Range(Chars("0123456789"))

WS == {" ", "\t", "\n", "\r", "\f"}

NL == "\n"

Rep(c, n) == [i \in 1..n |-> c]

\* The index after the run of characters of class cls that starts at i.
Skip(s, i, cls) ==
    IF i > Len(s) THEN i
    ELSE CHOOSE j \in i..(Len(s) + 1) :
             /\ (j > Len(s) \/ s[j] \notin cls)
             /\ \A k \in i..(j - 1) : s[k] \in cls

\* The index before the run of characters of class cls that ends at i.
SkipBack(s, i, cls) ==
    IF i < 1 THEN i
    ELSE CHOOSE j \in 0..i :
             /\ (j < 1 \/ s[j] \notin cls)
             /\ \A k \in (j + 1)..i : s[k] \in cls

\* The first index >= i holding a character of class cls, Len(s) + 1 when none.
Find(s, i, cls) ==
    IF i > Len(s) THEN i
    ELSE CHOOSE j \in i..(Len(s) + 1) :
             /\ (j > Len(s) \/ s[j] \in cls)
             /\ \A k \in i..(j - 1) : s[k] \notin cls

LStrip(s) == SubSeq(s, Skip(s, 1, WS), Len(s))

RStrip(s) == SubSeq(s, 1, SkipBack(s, Len(s), WS))

Strip(s) == RStrip(LStrip(s))

\* str.split(sep) for a one-character separator.
RECURSIVE SplitFrom(_, _, _)
SplitFrom(s, i, sep) ==
    LET j == Find(s, i, {sep})
    IN  IF j > Len(s) THEN <<SubSeq(s, i, Len(s))>>
        ELSE <<SubSeq(s, i, j - 1)>> \o SplitFrom(s, j + 1, sep)

Split(s, sep) == SplitFrom(s, 1, sep)

\* sep.join(parts)
RECURSIVE Join(_, _)
Join(parts, sep) ==
    IF parts = <<>> THEN <<>>
    ELSE IF Len(parts) = 1 THEN parts[1]
    ELSE parts[1] \o <<sep>> \o Join(Tail(parts), sep)

\* str.split() without argument: the maximal runs of non-whitespace.
RECURSIVE WordsFrom(_, _)
WordsFrom(s, i) ==
    LET b == Skip(s, i, WS)
        e == Find(s, b, WS)
    IN  IF b > Len(s) THEN <<>>
        ELSE <<SubSeq(s, b, e - 1)>> \o WordsFrom(s, e)

Words(s) == WordsFrom(s, 1)

\* str(number) of a natural number
RECURSIVE Str(_)
Str(n) == IF n < 10 THEN <<Chars("0123456789")[n + 1]>>
          ELSE Str(n \div 10) \o <<Chars("0123456789")[(n % 10) + 1]>>

IsAlpha(c) == c \in Upper \cup Lower

IsDigit(c) == c \in Digit

(***************************************************************************)
(* HEADING_PATTERNS.  Each pattern is anchored (^...$) and is applied to a *)
(* stripped line, which holds no newline, so a match covers the whole      *)
(* line: group(0) is the line.  A match is [k, g0, g1, g2] with k the      *)
(* pattern's place in the catalogue and g2 = <<>> when there is no group 2;*)
(* NoMatch when the pattern does not match.                                *)
(***************************************************************************)
NoMatch == [k |-> 0, g0 |-> <<>>, g1 |-> <<>>, g2 |-> <<>>]

TitleMin == 3

TitleMax == 100

\* \s+([A-Z][^\n]{3,100})$ from index p: the title group, <<>> when no match.
TitleAt(s, p) ==
    LET w == Skip(s, p, WS)
    IN  IF /\ w > p
           /\ w <= Len(s)
           /\ s[w] \in Upper
           /\ Len(s) - w >= TitleMin
           /\ Len(s) - w <= TitleMax
           /\ \A i \in (w + 1)..Len(s) : s[i] # NL
        THEN SubSeq(s, w, Len(s))
        ELSE <<>>

\* A numbered pattern: group 1 is s[1..e], the title is looked for from p.
Numbered(k, s, e, p) ==
    IF e >= 1 /\ TitleAt(s, p) # <<>>
    THEN [k |-> k, g0 |-> s, g1 |-> SubSeq(s, 1, e), g2 |-> TitleAt(s, p)]
    ELSE NoMatch

\* ^(\d+\.\d+(?:\.\d+)?)\s+([A-Z][^\n]{3,100})$
MatchDecimal(s) ==
    LET a == Skip(s, 1, Digit)
        b == Skip(s, a + 1, Digit)
        c == Skip(s, b + 1, Digit)
    IN  IF a > 1 /\ a <= Len(s) /\ s[a] = "." /\ b > a + 1
        THEN IF b <= Len(s) /\ s[b] = "." /\ c > b + 1
             THEN Numbered(1, s, c - 1, c)
             ELSE Numbered(1, s, b - 1, b)
        ELSE NoMatch

\* ^(\d+)\s+([A-Z][^\n]{3,100})$
MatchTopLevel(s) ==
    LET a == Skip(s, 1, Digit)
    IN  IF a > 1 THEN Numbered(2, s, a - 1, a) ELSE NoMatch

\* ^(\d+)\.\s+([A-Z][^\n]{3,100})$
MatchDotted(s) ==
    LET a == Skip(s, 1, Digit)
    IN  IF a > 1 /\ a <= Len(s) /\ s[a] = "." THEN Numbered(3, s, a - 1, a + 1) ELSE NoMatch

\* ^([IVX]+)\.\s+([A-Z][^\n]{3,100})$
MatchRoman(s) ==
    LET a == Skip(s, 1, {"I", "V", "X"})
    IN  IF a > 1 /\ a <= Len(s) /\ s[a] = "." THEN Numbered(4, s, a - 1, a + 1) ELSE NoMatch

\* ^([A-Z])\.\s+([A-Z][^\n]{3,100})$
MatchAlpha(s) ==
    IF Len(s) >= 2 /\ s[1] \in Upper /\ s[2] = "." THEN Numbered(5, s, 1, 3) ELSE NoMatch

CapsMin == 10

CapsMax == 100

\* ^([A-Z][A-Z\s]{10,100})$
MatchAllCaps(s) ==
    IF /\ Len(s) >= 1 + CapsMin
       /\ Len(s) <= 1 + CapsMax
       /\ s[1] \in Upper
       /\ \A i \in 2..Len(s) : s[i] \in Upper \cup WS
    THEN [k |-> 6, g0 |-> s, g1 |-> s, g2 |-> <<>>]
    ELSE NoMatch

TitleCaseMaxMore == 10

\* [A-Z][a-z]+
IsCapitalised(w) ==
    Len(w) >= 2 /\ w[1] \in Upper /\ \A i \in 2..Len(w) : w[i] \in Lower

\* ^([A-Z][a-z]+(?:\s+[A-Z][a-z]+){1,10})$
MatchTitleCase(s) ==
    LET ws == Words(s)
    IN  IF /\ Len(ws) >= 2
           /\ Len(ws) <= 1 + TitleCaseMaxMore
           /\ Len(s) >= 1
           /\ s[1] \notin WS
           /\ s[Len(s)] \notin WS
           /\ \A i \in 1..Len(ws) : IsCapitalised(ws[i])
        THEN [k |-> 7, g0 |-> s, g1 |-> s, g2 |-> <<>>]
        ELSE NoMatch

\* re.match(HEADING_PATTERNS[k], s, re.MULTILINE)
HEADING_PATTERNS(k, s) ==
    CASE k = 1 -> MatchDecimal(s)
      [] k = 2 -> MatchTopLevel(s)
      [] k = 3 -> MatchDotted(s)
      [] k = 4 -> MatchRoman(s)
      [] k = 5 -> MatchAlpha(s)
      [] k = 6 -> MatchAllCaps(s)
      [] k = 7 -> MatchTitleCase(s)

NumPatterns == 7

\* The inner loop of the first pass: the first pattern of the catalogue that
\* matches, from pattern k on.
RECURSIVE ClassifyFrom(_, _)
ClassifyFrom(s, k) ==
    IF k > NumPatterns THEN NoMatch
    ELSE IF HEADING_PATTERNS(k, s).k # 0 THEN HEADING_PATTERNS(k, s)
    ELSE ClassifyFrom(s, k + 1)

ClassifyFirstOnly(s) == HEADING_PATTERNS(1, s)

Classify(s) == ClassifyFrom(s, 1)


\* match.lastindex: patterns 1 to 5 have two groups, patterns 6 and 7 one.
LastIndex(m) == IF m.k <= 5 THEN 2 ELSE 1

\* heading_number = match.group(1) if match.lastindex >= 1 else None
HeadingNumberOf(m) == IF LastIndex(m) >= 1 THEN m.g1 ELSE None

(***************************************************************************)
(* clean_text                                                              *)
(***************************************************************************)
Has(s, i, lit) ==
    i >= 1 /\ i + Len(lit) - 1 <= Len(s) /\ SubSeq(s, i, i + Len(lit) - 1) = lit

\* \n---\s*Page\s+\d+\s*---\n matched at i: the index after the match, 0 when
\* there is no match at i.
PageMarkerEnd(s, i) ==
    LET b == Skip(s, i + 4, WS)
        d == Skip(s, b + 4, WS)
        e == Skip(s, d, Digit)
        f == Skip(s, e, WS)
    IN  IF /\ Has(s, i, Chars("\n---"))
           /\ Has(s, b, Chars("Page"))
           /\ d > b + 4
           /\ e > d
           /\ Has(s, f, Chars("---\n"))
        THEN f + 4
        ELSE 0

\* Reprint\s+\d{4}-\d{2} matched at i: the index after the match, 0 when none.
ReprintEnd(s, i) ==
    LET b == Skip(s, i + 7, WS)
    IN  IF /\ Has(s, i, Chars("Reprint"))
           /\ b > i + 7
           /\ b + 6 <= Len(s)
           /\ \A j \in {b, b + 1, b + 2, b + 3, b + 5, b + 6} : s[j] \in Digit
           /\ s[b + 4] = "-"
        THEN b + 7
        ELSE 0

\* \n\s*\n\s*\n+ matched at i: the index after the match, 0 when none.  The
\* match lies in the run of whitespace that starts at i, needs three newlines
\* in it and, each quantifier being greedy, ends with the run's last newline.
BlankRunEnd(s, i) ==
    LET r == Skip(s, i, WS)
        last == SkipBack(s, r - 1, WS \ {NL})
    IN  IF /\ i <= Len(s)
           /\ s[i] = NL
           /\ Cardinality({j \in i..(r - 1) : s[j] = NL}) >= 3
        THEN last + 1
        ELSE 0

\* The three patterns of clean_text, by name: the index after the match of
\* pattern pat at i, 0 when there is no match at i.
MatchEnd(pat, s, i) ==
    CASE pat = "page"    -> PageMarkerEnd(s, i)
      [] pat = "reprint" -> ReprintEnd(s, i)
      [] pat = "blank"   -> BlankRunEnd(s, i)

\* The first index >= i where a match of pat starts, 0 when none.
FirstMatch(pat, s, i) ==
    IF \E j \in i..Len(s) : MatchEnd(pat, s, j) > 0
    THEN CHOOSE j \in i..Len(s) :
             MatchEnd(pat, s, j) > 0 /\ \A k \in i..(j - 1) : MatchEnd(pat, s, k) = 0
    ELSE 0

\* re.sub(pat, repl, text) from index i: the matches are taken left to
\* right, each search starting where the previous match ended.
RECURSIVE Sub(_, _, _, _)
Sub(pat, s, i, repl) ==
    LET m == FirstMatch(pat, s, i)
    IN  IF m = 0 THEN SubSeq(s, i, Len(s))
        ELSE SubSeq(s, i, m - 1) \o repl \o Sub(pat, s, MatchEnd(pat, s, m), repl)

\* lines = [line.rstrip() for line in text.split('\n')]
RStripLines(ls) == [i \in 1..Len(ls) |-> RStrip(ls[i])]

clean_text(text) ==
    LET t1 == Sub("page", text, 1, <<NL>>)
        t2 == Sub("reprint", t1, 1, <<>>)
        t3 == Sub("blank", t2, 1, <<NL, NL>>)
        t4 == Join(RStripLines(Split(t3, NL)), NL)
    IN  Strip(t4)

(***************************************************************************)
(* is_valid_heading                                                        *)
(***************************************************************************)
MinContent == 100

MinWords == 2

MaxHeadingLen == 120

MapCapsMin == 15

MapWordsMin == 3

ShortWordLen == 8

\* re.match(r'^[A-Z\s]{15,}$', heading)
IsCapsLabel(h) ==
    Len(h) >= MapCapsMin /\ \A i \in 1..Len(h) : h[i] \in Upper \cup WS

\* len(words) >= 3 and all(len(w) < 8 for w in words) and no digit in heading
IsPlaceList(h) ==
    LET words == Words(h)
    IN  /\ Len(words) >= MapWordsMin
        /\ \A i \in 1..Len(words) : Len(words[i]) < ShortWordLen
        /\ ~ \E i \in 1..Len(h) : IsDigit(h[i])

IsValidNoLengthCheck(h, c) ==
    /\ Len(Words(h)) >= MinWords
    /\ Len(h) <= MaxHeadingLen
    /\ \E i \in 1..Len(h) : IsAlpha(h[i])
    /\ ~ IsCapsLabel(h)
    /\ ~ IsPlaceList(h)

IsValidNoPlaceList(h, c) ==
    /\ Len(c) >= MinContent
    /\ Len(Words(h)) >= MinWords
    /\ Len(h) <= MaxHeadingLen
    /\ \E i \in 1..Len(h) : IsAlpha(h[i])
    /\ ~ IsCapsLabel(h)

is_valid_heading(h, c) ==
    IF Len(c) < MinContent THEN FALSE
    ELSE IF Len(Words(h)) < MinWords THEN FALSE
    ELSE IF Len(h) > MaxHeadingLen THEN FALSE
    ELSE IF ~ \E i \in 1..Len(h) : IsAlpha(h[i]) THEN FALSE
    ELSE IF IsCapsLabel(h) THEN FALSE
    ELSE IF IsPlaceList(h) THEN FALSE
    ELSE TRUE

(***************************************************************************)
(* SubTopic                                                                *)
(***************************************************************************)
SubTopic(number, title, body, start_pos, heading_number) ==
    [number         |-> number,
     heading_number |-> IF heading_number = None \/ heading_number = <<>>
                        THEN Str(number) ELSE heading_number,
     title          |-> Strip(title),
     content        |-> Strip(body),
     start_pos      |-> start_pos]


(***************************************************************************)
(* detect_subtopics                                                        *)
(***************************************************************************)
MinLineLen == 3

\* The two ValueErrors of the source, by their messages.
NoSubtopicsError == "ValueError: No sub-topics detected"

TooShortError == "ValueError: Extracted text is too short or empty"

\* First pass, from line i on (i counts from 0 as enumerate does).
RECURSIVE FirstPassFrom(_, _)
FirstPassFrom(ls, i) ==
    IF i >= Len(ls) THEN <<>>
    ELSE LET line_stripped == Strip(ls[i + 1])
             match == Classify(line_stripped)
         IN  (IF line_stripped = <<>> \/ Len(line_stripped) < MinLineLen \/ match.k = 0
              THEN <<>>
              ELSE <<[line_num       |-> i,
                      heading        |-> match.g0,
                      heading_number |-> HeadingNumberOf(match)]>>)
             \o FirstPassFrom(ls, i + 1)

FirstPass(ls) == FirstPassFrom(ls, 0)

\* if not potential_headings: raise ValueError
NeverRaises(ph) == FALSE

NoHeadings(ph) == ph = <<>>

StartLineAtHeading(ph, i) == ph[i + 1].line_num

\* start_line = line_num + 1
StartLine(ph, i) == ph[i + 1].line_num + 1

EndLineAtEnd(ls, ph, i) == Len(ls)

\* end_line: the next candidate's line, or len(lines) for the last one
EndLine(ls, ph, i) ==
    IF i < Len(ph) - 1 THEN ph[i + 2].line_num ELSE Len(ls)

\* content = '\n'.join(lines[start_line:end_line]).strip()
ContentOf(ls, ph, i) ==
    Strip(Join(SubSeq(ls, StartLine(ph, i) + 1, EndLine(ls, ph, i)), NL))

NumberFromEnd(ph, i) == Len(ph) - i

\* number=idx + 1
SeqNumber(ph, i) == i + 1

DetectRaise ==
    /\ pc = "detect"
    /\ lines' = Split(cleaned_text, NL)
    /\ potential_headings' = FirstPass(lines')
    /\ NoHeadings(potential_headings')
    /\ error' = NoSubtopicsError
    /\ pc' = "raised"
    /\ UNCHANGED <<raw_text, saved_text, cleaned_text, idx, subtopics, skipped,
                   generated_files, heading, content, valid>>

DetectFirstPass ==
    /\ pc = "detect"
    /\ lines' = Split(cleaned_text, NL)
    /\ potential_headings' = FirstPass(lines')
    /\ ~ NoHeadings(potential_headings')
    /\ idx' = 0
    /\ pc' = "second_pass"
    /\ UNCHANGED <<raw_text, saved_text, cleaned_text, subtopics, skipped,
                   generated_files, error, heading, content, valid>>

\* One iteration of the second pass.
DetectStep ==
    /\ pc = "second_pass"
    /\ idx < Len(potential_headings)
    /\ LET h == potential_headings[idx + 1]
           c == ContentOf(lines, potential_headings, idx)
       IN  IF ~ is_valid_heading(h.heading, c)
           THEN /\ skipped' = Append(skipped, idx)
                /\ UNCHANGED subtopics
           ELSE /\ subtopics' = Append(subtopics,
                        SubTopic(SeqNumber(potential_headings, idx), h.heading, c,
                                 h.line_num, h.heading_number))
                /\ UNCHANGED skipped
    /\ idx' = idx + 1
    /\ UNCHANGED <<pc, raw_text, saved_text, cleaned_text, lines, potential_headings,
                   generated_files, error, heading, content, valid>>

DetectReturn ==
    /\ pc = "second_pass"
    /\ idx = Len(potential_headings)
    /\ pc' = "detected"
    /\ UNCHANGED <<raw_text, saved_text, cleaned_text, lines, potential_headings, idx,
                   subtopics, skipped, generated_files, error, heading, content, valid>>

(***************************************************************************)
(* process                                                                 *)
(***************************************************************************)
MinRawLen == 100

\* if not raw_text or len(raw_text) < 100: raise ValueError
TooShort ==
    /\ pc = "process"
    /\ (raw_text = <<>> \/ Len(raw_text) < MinRawLen)
    /\ error' = TooShortError
    /\ pc' = "raised"
    /\ UNCHANGED <<raw_text, saved_text, cleaned_text, lines, potential_headings, idx,
                   subtopics, skipped, generated_files, heading, content, valid>>

\* save_extracted_text: the write may fail, which is reported and ignored.
SaveExtracted ==
    /\ pc = "process"
    /\ ~ (raw_text = <<>> \/ Len(raw_text) < MinRawLen)
    /\ \E written \in BOOLEAN :
           saved_text' = IF written THEN raw_text ELSE None
    /\ pc' = "clean"
    /\ UNCHANGED <<raw_text, cleaned_text, lines, potential_headings, idx,
                   subtopics, skipped, generated_files, error, heading, content, valid>>

CleanText ==
    /\ pc = "clean"
    /\ cleaned_text' = clean_text(raw_text)
    /\ pc' = "detect"
    /\ UNCHANGED <<raw_text, saved_text, lines, potential_headings, idx,
                   subtopics, skipped, generated_files, error, heading, content, valid>>

\* One iteration of the loop over subtopics: create_pdf for the next one.
CreatePdf ==
    /\ pc = "detected"
    /\ Len(generated_files) < Len(subtopics)
    /\ generated_files' =
           Append(generated_files, subtopics[Len(generated_files) + 1].number)
    /\ UNCHANGED <<pc, raw_text, saved_text, cleaned_text, lines, potential_headings,
                   idx, subtopics, skipped, error, heading, content, valid>>

ProcessReturn ==
    /\ pc = "detected"
    /\ Len(generated_files) = Len(subtopics)
    /\ pc' = "success"
    /\ UNCHANGED <<raw_text, saved_text, cleaned_text, lines, potential_headings, idx,
                   subtopics, skipped, generated_files, error, heading, content, valid>>

\* A direct call of is_valid_heading(heading, content).
IsValidReturn ==
    /\ pc = "is_valid"
    /\ valid' = is_valid_heading(heading, content)
    /\ pc' = "returned"
    /\ UNCHANGED <<raw_text, saved_text, cleaned_text, lines, potential_headings, idx,
                   subtopics, skipped, generated_files, error, heading, content>>

(***************************************************************************)
(* Inputs                                                                  *)
(***************************************************************************)
MaxLines == 5

MaxRawLines == 3

MaxWords == 3

SeqsUpTo(S, n) == UNION {[1..k -> S] : k \in 1..n}

LongLine == Rep("x", MinContent)

PadLine == Rep(" ", MinRawLen)

DetectPool ==
    { Chars("1.1 Climate"),
      LongLine,
      Chars("SOMALIA KENYA ETHIOPIA"),
      Chars("  dew"),
      Chars("II. Activity Box"),
      <<>> }

RawPool ==
    { Chars("1.1 Climate"),
      LongLine,
      PadLine,
      Chars("--- Page 1 ---"),
      Chars("Reprint 2025-26"),
      Chars("SOMALIA KENYA ETHIOPIA"),
      <<>> }

WordPool ==
    { Chars("SOMALIA"), Chars("KENYA"), Chars("ETHIOPIA"), Chars("MAP"),
      Chars("1.1"), Chars("Climate"), Chars("Activity"), Chars("Box") }

SepPool == { <<" ">>, Chars("   ") }

RECURSIVE JoinWords(_, _)
JoinWords(ws, sep) ==
    IF Len(ws) = 1 THEN ws[1] ELSE ws[1] \o sep \o JoinWords(Tail(ws), sep)

HeadingPool == { JoinWords(ws, sep) : ws \in SeqsUpTo(WordPool, MaxWords), sep \in SepPool }

ContentPool == { Rep("x", MinContent - 1), Rep("x", MinContent) }

Blank ==
    /\ saved_text = None
    /\ lines = <<>>
    /\ potential_headings = <<>>
    /\ idx = 0
    /\ subtopics = <<>>
    /\ skipped = <<>>
    /\ generated_files = <<>>
    /\ error = ""
    /\ valid = FALSE

\* process() on a file whose extracted text is raw_text
Init ==
    /\ pc = "process"
    /\ raw_text \in {Join(d, NL) : d \in SeqsUpTo(RawPool, MaxRawLines)}
    /\ cleaned_text = <<>>
    /\ heading = <<>>
    /\ content = <<>>
    /\ Blank

Next ==
    \/ TooShort
    \/ SaveExtracted
    \/ CleanText
    \/ DetectRaise
    \/ DetectFirstPass
    \/ DetectStep
    \/ DetectReturn
    \/ CreatePdf
    \/ ProcessReturn

Spec == Init /\ [][Next]_vars

\* detect_subtopics(text) called on its own
InitDetect ==
    /\ pc = "detect"
    /\ raw_text = <<>>
    /\ cleaned_text \in {Join(d, NL) : d \in SeqsUpTo(DetectPool, MaxLines)}
    /\ heading = <<>>
    /\ content = <<>>
    /\ Blank

NextDetect ==
    \/ DetectRaise
    \/ DetectFirstPass
    \/ DetectStep
    \/ DetectReturn

SpecDetect == InitDetect /\ [][NextDetect]_vars

\* is_valid_heading(heading, content) called on its own
InitValid ==
    /\ pc = "is_valid"
    /\ raw_text = <<>>
    /\ cleaned_text = <<>>
    /\ heading \in HeadingPool
    /\ content \in ContentPool
    /\ Blank

NextValid == IsValidReturn

SpecValid == InitValid /\ [][NextValid]_vars


(***************************************************************************)
(* Properties                                                              *)
(***************************************************************************)
Returned == pc \in {"detected", "success"}

RECURSIVE Concat(_)
Concat(ss) == IF ss = <<>> THEN <<>> ELSE Head(ss) \o Concat(Tail(ss))

IsNonBlank(l) == Strip(l) # <<>>

\* The non-blank lines of a sequence of lines, as they stand and trimmed.
NonBlankLines(ls) == SelectSeq(ls, IsNonBlank)

TrimmedLines(ls) == [i \in 1..Len(NonBlankLines(ls)) |-> Strip(NonBlankLines(ls)[i])]

\* The lines before the first candidate heading.
Preamble == SubSeq(lines, 1, potential_headings[1].line_num)

IsAccepted(i) == \E k \in 1..Len(subtopics) : subtopics[k].number = i + 1

SectionOf(i) == subtopics[CHOOSE k \in 1..Len(subtopics) : subtopics[k].number = i + 1]

\* The content of candidate i: the emitted section's content when it was
\* accepted, the content handed to the validator when it was rejected.
BucketContent(i) ==
    IF IsAccepted(i) THEN SectionOf(i).content
    ELSE ContentOf(lines, potential_headings, i)

BucketTitle(i) ==
    IF IsAccepted(i) THEN SectionOf(i).title ELSE potential_headings[i + 1].heading

\* C1 as stated: the preamble, then each candidate's content in order, is the
\* sequence of non-blank lines of the input.
C1_ContentConservation ==
    Returned =>
        NonBlankLines(Preamble)
          \o Concat([i \in 1..Len(potential_headings) |->
                        NonBlankLines(Split(BucketContent(i - 1), NL))])
        = NonBlankLines(lines)

\* C1 amended: the preamble, then for each candidate in order its heading line
\* (kept as the title) followed by its content, is the sequence of non-blank
\* lines of the input, each line compared with its surrounding whitespace
\* trimmed: no line is dropped and none is duplicated.
C1_Conservation ==
    Returned =>
        TrimmedLines(Preamble)
          \o Concat([i \in 1..Len(potential_headings) |->
                        <<BucketTitle(i - 1)>>
                          \o TrimmedLines(Split(BucketContent(i - 1), NL))])
        = TrimmedLines(lines)

C1_Witness ==
    /\ Returned
    /\ NonBlankLines(Preamble) # <<>>
    /\ Len(subtopics) >= 1
    /\ Len(skipped) >= 1
    /\ \E i \in 1..Len(lines) : ~ IsNonBlank(lines[i])
    /\ \E i \in 1..Len(lines) : IsNonBlank(lines[i]) /\ lines[i][1] \in WS

\* C2: the emitted sections' number is strictly increasing, and so is their
\* start_pos, which is the line of the section's heading.
C2_MonotonicOrdering ==
    /\ \A k \in 1..(Len(subtopics) - 1) :
           /\ subtopics[k].number < subtopics[k + 1].number
           /\ subtopics[k].start_pos < subtopics[k + 1].start_pos
    /\ \A k \in 1..Len(subtopics) :
           Strip(lines[subtopics[k].start_pos + 1]) = subtopics[k].title

C2_Witness ==
    /\ Returned
    /\ Len(subtopics) >= 2
    /\ \E j \in 1..Len(skipped) :
           subtopics[1].number < skipped[j] + 1 /\ skipped[j] + 1 < subtopics[2].number

IsBoundary(i) == \E j \in 1..Len(potential_headings) : potential_headings[j].line_num = i

Matches(k, l) == HEADING_PATTERNS(k, Strip(l)).k # 0

FirstPattern(l) == CHOOSE k \in 1..NumPatterns : Matches(k, l) /\ \A j \in 1..(k - 1) : ~ Matches(j, l)

C4_NoSectionsIsFatal ==
    (Len(potential_headings) >= 1 /\ subtopics = <<>>) => pc # "success"

NoLineMatches(text) ==
    \A i \in 1..Len(Split(text, NL)) :
        \A k \in 1..NumPatterns : ~ Matches(k, Split(text, NL)[i])

DetectStarted ==
    pc \in {"second_pass", "detected", "success"} \/ error = NoSubtopicsError

\* C5: when no line of the text handed to detect_subtopics matches a pattern,
\* the run ends with the ValueError of detect_subtopics, with no section and
\* no create_pdf call; only the extracted-text file may have been written.
C5_NoPatternFoundTerminal ==
    (DetectStarted /\ NoLineMatches(cleaned_text)) =>
        /\ pc = "raised"
        /\ error = NoSubtopicsError
        /\ subtopics = <<>>
        /\ generated_files = <<>>
        /\ saved_text \in {raw_text, None}

C5_Witness ==
    /\ pc = "raised"
    /\ error = NoSubtopicsError
    /\ saved_text = raw_text
    /\ cleaned_text # <<>>
    /\ generated_files = <<>>

\* C6: heading detection is started only on a cleaned text of at least the
\* minimum length (100 characters).
C6_ShortCleanedTextAborts ==
    DetectStarted => Len(cleaned_text) >= 100

\* The input is heading lines "<N.N> <Title>", each followed by one content
\* line of at least the minimum length.
IsDecimalDocument ==
    /\ Len(lines) % 2 = 0
    /\ \A i \in 1..Len(lines) :
           IF i % 2 = 1 THEN MatchDecimal(lines[i]).k = 1
           ELSE Len(lines[i]) >= 100 /\ \A k \in 1..NumPatterns : ~ Matches(k, lines[i])

\* C7: on such a document one section is emitted per heading, in order, with
\* the heading's number as number token and the inline title alone as title.
C7_InlineDecimalHeadings ==
    (Returned /\ IsDecimalDocument) =>
        /\ Len(subtopics) = Len(lines) \div 2
        /\ \A k \in 1..Len(subtopics) :
               /\ subtopics[k].heading_number = MatchDecimal(lines[2 * k - 1]).g1
               /\ subtopics[k].title = MatchDecimal(lines[2 * k - 1]).g2

ToLower(c) ==
    IF c \in Upper
    THEN Chars("abcdefghijklmnopqrstuvwxyz")[
             CHOOSE i \in 1..26 : Chars("ABCDEFGHIJKLMNOPQRSTUVWXYZ")[i] = c]
    ELSE c

LowerCase(s) == [i \in 1..Len(s) |-> ToLower(s[i])]

Contains(s, sub) == \E i \in 1..Len(s) : Has(s, i, sub)

\* The non-topic marker words: activity and source boxes, discussion and
\* project prompts, the key-words marker.
NonTopicMarkers ==
    { Chars("activity"), Chars("source"), Chars("discuss"), Chars("project"),
      Chars("key words") }

HasMarker(title) == \E m \in NonTopicMarkers : Contains(LowerCase(title), m)

\* C8: every candidate whose title holds a marker word is rejected, and no
\* emitted section has such a title.
C8_MarkerWordsRejected ==
    /\ \A i \in 1..Len(potential_headings) :
           (i - 1 < idx /\ HasMarker(potential_headings[i].heading)) => ~ IsAccepted(i - 1)
    /\ \A k \in 1..Len(subtopics) : ~ HasMarker(subtopics[k].title)

\* C9: every emitted section has a non-empty number token, a non-empty title
\* and a content that is non-empty after trimming and at least 100 characters
\* long; a candidate whose trimmed content is shorter is not emitted.
C9_EmittedSection ==
    /\ \A k \in 1..Len(subtopics) :
           /\ subtopics[k].heading_number # <<>>
           /\ subtopics[k].heading_number # None
           /\ subtopics[k].title # <<>>
           /\ Strip(subtopics[k].content) # <<>>
           /\ Len(subtopics[k].content) >= 100
    /\ \A i \in 1..Len(potential_headings) :
           Len(ContentOf(lines, potential_headings, i - 1)) < 100 => ~ IsAccepted(i - 1)

C9_Witness ==
    /\ Returned
    /\ Len(subtopics) >= 1
    /\ \E j \in 1..Len(skipped) :
           /\ Len(ContentOf(lines, potential_headings, skipped[j])) < 100
           /\ ContentOf(lines, potential_headings, skipped[j]) # <<>>
           /\ is_valid_heading(potential_headings[skipped[j] + 1].heading, LongLine)

\* A title of capital letters and whitespace only (so without a digit).
IsAllCapsTitle(h) ==
    /\ \A i \in 1..Len(h) : h[i] \in Upper \cup WS
    /\ \E i \in 1..Len(h) : h[i] \in Upper

IsCandidate(h) == \E k \in 1..NumPatterns : Matches(k, h)

NextHeadingLine(p) ==
    IF \E q \in (p + 1)..Len(lines) : IsCandidate(lines[q])
    THEN CHOOSE q \in (p + 1)..Len(lines) :
             IsCandidate(lines[q]) /\ \A r \in (p + 1)..(q - 1) : ~ IsCandidate(lines[r])
    ELSE Len(lines) + 1

\* The lines between the heading at line p and the next heading line or the
\* end of the input, joined and trimmed as a content is.
LinesUnder(p) == Strip(Join(SubSeq(lines, p + 1, NextHeadingLine(p) - 1), NL))

\* C11: the content of an emitted section is the lines between its heading
\* line and the next heading line, rejected or not, or the end of the input:
\* a section is sealed at a rejected heading and holds nothing of the
\* rejected candidate's content; the last candidate's content is all the
\* lines that remain after its heading.
C11_RejectedContentNotEmitted ==
    Returned =>
        /\ \A k \in 1..Len(subtopics) :
               /\ subtopics[k].content = LinesUnder(subtopics[k].start_pos + 1)
               /\ \A j \in 1..Len(skipped) :
                      LET r == potential_headings[skipped[j] + 1].line_num
                      IN  r > subtopics[k].start_pos =>
                              Len(Split(subtopics[k].content, NL))
                                  <= r - subtopics[k].start_pos - 1
        /\ BucketContent(Len(potential_headings) - 1)
             = Strip(Join(SubSeq(lines,
                                 potential_headings[Len(potential_headings)].line_num + 2,
                                 Len(lines)), NL))

C11_Witness ==
    /\ Returned
    /\ \E k \in 1..Len(subtopics) : \E j \in 1..Len(skipped) :
           /\ skipped[j] = subtopics[k].number
           /\ skipped[j] = Len(potential_headings) - 1
           /\ Len(ContentOf(lines, potential_headings, skipped[j])) >= 100
           /\ potential_headings[skipped[j] + 1].line_num + 2 < Len(lines)

====
